---- MODULE Spec2Model ----
(***************************************************************************)
(* Model of src/app.py: a Streamlit page that keeps a conversation in the  *)
(* session state, accepts typed text or an uploaded audio file, calls the  *)
(* chat endpoint through call_openai_with_backoff and appends the reply    *)
(* (or an error placeholder) to the history.                               *)
(*                                                                         *)
(* The script is run from top to bottom once per user interaction.  pc is  *)
(* the position of the running script; pc = "idle" means that the script   *)
(* has ended and the page waits for the next interaction.  The widgets     *)
(* the user sees are the ones the last run rendered, so form_disabled and  *)
(* uploader_disabled hold the values of `disabled=` of that run.           *)
(***************************************************************************)
EXTENDS Integers, Sequences, FiniteSets, TLC

\* ---------------------------------------------------------------- bounds
MaxTime == 6          \* user interactions happen while now < MaxTime
MaxSubmissions == 2   \* user interactions happen while accepted < MaxSubmissions

\* ------------------------------------------------------ program constants
COOLDOWN_SECONDS == 5
max_retries == 5
initial_backoff == 1

\* ------------------------------------------------------------ input sets
\* What the user may type into the text box ("" is a click on Send with an
\* empty box, which reruns the script).
Texts == {"", " ", "hi"}
\* The bytes of an uploaded file: an empty file or a file with content.
AudioBytes == {<<>>, <<1>>}
\* JSON bodies the chat endpoint may send with status 200.
BodyFull == [id |-> 1, choices |-> <<[index |-> 0, message |-> [role |-> "assistant", content |-> "ok"]]>>]
BodyNoChoices == [id |-> 1]
BodyEmptyChoices == [id |-> 1, choices |-> <<>>]
BodyNoMessage == [id |-> 1, choices |-> <<[index |-> 0]>>]
BodyNoContent == [id |-> 1, choices |-> <<[index |-> 0, message |-> [role |-> "assistant"]]>>]
BodyEmptyContent == [id |-> 1, choices |-> <<[index |-> 0, message |-> [role |-> "assistant", content |-> ""]]>>]
Bodies == {BodyFull, BodyNoChoices, BodyEmptyChoices, BodyNoMessage, BodyNoContent, BodyEmptyContent}
NoBody == [id |-> 0]
\* What one requests.post to the chat endpoint may produce: a 200 with a body,
\* an HTTP error status (raise_for_status raises HTTPError), or a network
\* failure (a RequestException that is no HTTPError; status 0 here).
Responses == [status : {200}, body : Bodies] \cup [status : {429, 500, 0}, body : {NoBody}]
\* What the transcription request may produce: a transcript, an empty
\* transcript, an HTTP error or another exception.
Transcriptions == {[kind |-> "ok", text |-> "yo"], [kind |-> "ok", text |-> ""],
                   [kind |-> "http", text |-> ""], [kind |-> "other", text |-> ""]}

\* ----------------------------------------------------------------- state
VARIABLES
    history,            \* st.session_state.history
    awaiting_reply,     \* st.session_state.awaiting_reply
    cooldown_until,     \* st.session_state.cooldown_until
    s_uploaded_audio,   \* st.session_state._uploaded_audio: <<>> absent, <<b>> bytes b
    now,                \* time.time()
    pc,                 \* position of the script run
    submit_text,        \* value of the form's submit button in this run
    user_input,         \* value of the text input in this run
    audio_file,         \* file held by the uploader: <<>> none, <<b>> bytes b
    form_disabled,      \* `disabled` of the text form as last rendered
    uploader_disabled,  \* `disabled` of the uploader as last rendered
    uploaded_audio,     \* local of the processing block (line 160)
    transcribed,        \* what transcribe_audio_bytes produced in this pass (line 167)
    attempt,            \* loop variable of call_openai_with_backoff
    backoff,            \* local of call_openai_with_backoff
    sleeps,             \* the arguments of time.sleep in the current call, in order
    responses,          \* what the endpoint answered to the current call, in order
    data,               \* the body call_openai_with_backoff returned
    exc,                \* exception in flight: [kind, status]
    assistant_text,     \* local of the processing block (line 192)
    tts,                \* outcome of synthesize_tts_to_file in this pass
    accepted,           \* number of submissions the script accepted (lines 61, 70)
    processed,          \* number of passes through the processing block (line 155)
    calls,              \* number of calls of call_openai_with_backoff (line 191)
    api_key,            \* parameter of call_openai_with_backoff (line 102)
    messages,           \* parameter of call_openai_with_backoff (line 189)
    secrets_key,        \* st.secrets.get("OPENAI_API_KEY"); "" when absent
    env_key,            \* os.environ.get("OPENAI_API_KEY"); "" when absent
    initialised,        \* lines 40-45 have created the session state
    other               \* the locals of a second run of the script, when two overlap

vars == <<history, awaiting_reply, cooldown_until, s_uploaded_audio, now, pc,
          submit_text, user_input, audio_file, form_disabled, uploader_disabled,
          uploaded_audio, transcribed, attempt, backoff, sleeps, responses, data, exc,
          assistant_text, tts, accepted, processed, calls, api_key, messages,
          secrets_key, env_key, initialised, other>>

session == <<history, awaiting_reply, cooldown_until, s_uploaded_audio>>
widgets == <<submit_text, user_input, audio_file>>
rendered == <<form_disabled, uploader_disabled>>
call == <<attempt, backoff, sleeps, responses, data, api_key, messages>>
locals == <<uploaded_audio, transcribed, assistant_text, tts>>
ghosts == <<accepted, processed, calls>>
fixed == <<secrets_key, env_key, initialised, other>>

NoExc == [kind |-> "none", status |-> 0]
NoTranscript == [kind |-> "none", text |-> ""]

\* ------------------------------------------------------------- helpers
\* The fixed texts of the source are written with "-" for its em dash.
\* Python truthiness of a str / bytes / list value.
Truthy(s) == Len(s) > 0

Turn(role, content) == [role |-> role, content |-> content]

\* dict.get(key, default)
Get(d, key, default) == IF key \in DOMAIN d THEN d[key] ELSE default

EmptyDict == [k \in {} |-> ""]

is_disabled == now < cooldown_until \/ awaiting_reply

\* Lines 27-33 with the environment variable looked up first.
OPENAI_KEY_EnvFirst == IF Truthy(env_key) THEN env_key ELSE secrets_key

\* Lines 27-33: the key of the secrets store when it is truthy, else the
\* environment variable.
OPENAI_KEY == IF Truthy(secrets_key) THEN secrets_key ELSE env_key

\* Line 189 sending the last turn only.
MessagesLastOnly(h) == <<[role |-> h[Len(h)].role, content |-> h[Len(h)].content]>>

\* Line 189: the message list built from the history.
Messages(h) == [i \in 1..Len(h) |-> [role |-> h[i].role, content |-> h[i].content]]

\* The locals of a run of the script that is not running.
IdleRun ==
    [pc |-> "idle", submit_text |-> FALSE, user_input |-> "", uploaded_audio |-> <<>>,
     transcribed |-> NoTranscript, attempt |-> 0, backoff |-> 0, sleeps |-> <<>>,
     responses |-> <<>>, data |-> NoBody, api_key |-> "", messages |-> <<>>,
     exc |-> NoExc, assistant_text |-> "", tts |-> "none"]

\* ------------------------------------------------------------------ Init
\* The state after the first run of the script on a fresh session: lines
\* 40-45 create the session state, both widgets are rendered enabled, and
\* the processing block is skipped.
Init ==
    /\ history = <<>>
    /\ awaiting_reply = FALSE
    /\ cooldown_until = 0
    /\ s_uploaded_audio = <<>>
    /\ now = 0
    /\ pc = "idle"
    /\ submit_text = FALSE
    /\ user_input = ""
    /\ audio_file = <<>>
    /\ form_disabled = FALSE
    /\ uploader_disabled = FALSE
    /\ uploaded_audio = <<>>
    /\ transcribed = NoTranscript
    /\ attempt = 0
    /\ backoff = 0
    /\ sleeps = <<>>
    /\ responses = <<>>
    /\ data = NoBody
    /\ exc = NoExc
    /\ assistant_text = ""
    /\ tts = "none"
    /\ accepted = 0
    /\ processed = 0
    /\ calls = 0
    /\ api_key = ""
    /\ messages = <<>>
    /\ secrets_key = "sk-secrets"
    /\ env_key = ""
    /\ initialised = TRUE
    /\ other = IdleRun

\* ---------------------------------------------------------- user actions
\* The page accepts interactions while the script is not running.  A widget
\* that the last run rendered with disabled=True cannot be operated.
CanInteract == pc = "idle" /\ now < MaxTime /\ accepted < MaxSubmissions

\* The user types t and presses Send (line 60); the script reruns.
SubmitText(t) ==
    /\ CanInteract
    /\ ~form_disabled
    /\ submit_text' = TRUE
    /\ user_input' = t
    /\ pc' = "form"
    /\ UNCHANGED <<session, now, audio_file, rendered, locals, call, exc, ghosts>>
    /\ UNCHANGED fixed

\* The user puts a file with bytes b into the uploader (line 69); the
\* uploader keeps the file over later runs until it is removed.
UploadAudio(b) ==
    /\ CanInteract
    /\ ~uploader_disabled
    /\ audio_file' = <<b>>
    /\ pc' = "form"
    /\ UNCHANGED <<session, now, submit_text, user_input, rendered, locals, call, exc, ghosts>>
    /\ UNCHANGED fixed

\* The user removes the file from the uploader; the script reruns.
RemoveAudio ==
    /\ CanInteract
    /\ ~uploader_disabled
    /\ audio_file # <<>>
    /\ audio_file' = <<>>
    /\ pc' = "form"
    /\ UNCHANGED <<session, now, submit_text, user_input, rendered, locals, call, exc, ghosts>>
    /\ UNCHANGED fixed

\* A second passes while the page waits.
Tick ==
    /\ pc = "idle"
    /\ now < MaxTime
    /\ now' = now + 1
    /\ UNCHANGED <<session, pc, widgets, rendered, locals, call, exc, ghosts>>
    /\ UNCHANGED fixed

\* ------------------------------------------------------------ script run
\* Line 61: the condition under which the text submission is accepted.
TextAccepted == submit_text /\ Truthy(user_input)

\* RunForm without lines 63-64: the turn is appended and nothing is locked.
RunFormNoLock ==
    /\ pc = "form"
    /\ form_disabled' = is_disabled
    /\ IF TextAccepted
       THEN /\ history' = Append(history, Turn("user", user_input))
            /\ accepted' = accepted + 1
       ELSE UNCHANGED <<history, accepted>>
    /\ pc' = "upload"
    /\ UNCHANGED <<awaiting_reply, cooldown_until, s_uploaded_audio, now, widgets,
                   uploader_disabled, locals, call, exc, processed, calls>>
    /\ UNCHANGED fixed

\* Lines 57-64: the text form.
RunForm ==
    /\ pc = "form"
    /\ form_disabled' = is_disabled
    /\ IF TextAccepted
       THEN /\ history' = Append(history, Turn("user", user_input))
            /\ awaiting_reply' = TRUE
            /\ cooldown_until' = now + COOLDOWN_SECONDS
            /\ accepted' = accepted + 1
       ELSE UNCHANGED <<history, awaiting_reply, cooldown_until, accepted>>
    /\ pc' = "upload"
    /\ UNCHANGED <<s_uploaded_audio, now, widgets, uploader_disabled, locals, call, exc, processed, calls>>
    /\ UNCHANGED fixed

\* Line 70: the condition under which the uploaded file is queued.
AudioAccepted == audio_file # <<>> /\ ~is_disabled

\* Lines 69-82: the audio uploader.
RunUpload ==
    /\ pc = "upload"
    /\ uploader_disabled' = is_disabled
    /\ IF AudioAccepted
       THEN /\ awaiting_reply' = TRUE
            /\ cooldown_until' = now + COOLDOWN_SECONDS
            /\ s_uploaded_audio' = audio_file
            /\ accepted' = accepted + 1
       ELSE UNCHANGED <<awaiting_reply, cooldown_until, s_uploaded_audio, accepted>>
    /\ pc' = "guard"
    /\ UNCHANGED <<history, now, widgets, form_disabled, locals, call, exc, processed, calls>>
    /\ UNCHANGED fixed

\* Line 155: the condition under which the processing block runs.
ProcessingGuard == awaiting_reply /\ Truthy(history)

\* The end of the script: its locals and the widget values of the run are gone.
EndOfRun ==
    /\ pc' = "idle"
    /\ submit_text' = FALSE
    /\ user_input' = ""
    /\ uploaded_audio' = <<>>
    /\ transcribed' = NoTranscript
    /\ assistant_text' = ""
    /\ tts' = "none"
    /\ attempt' = 0
    /\ backoff' = 0
    /\ sleeps' = <<>>
    /\ responses' = <<>>
    /\ data' = NoBody
    /\ api_key' = ""
    /\ messages' = <<>>
    /\ exc' = NoExc

\* Lines 155-160: entry of the processing block.  The local uploaded_audio is
\* None or the queued bytes; None and b"" are both falsy at line 165, and
\* both are <<>> here.
EnterProcessing ==
    /\ pc = "guard"
    /\ ProcessingGuard
    /\ awaiting_reply' = TRUE
    /\ uploaded_audio' = IF s_uploaded_audio # <<>> THEN s_uploaded_audio[1] ELSE <<>>
    /\ s_uploaded_audio' = <<>>
    /\ processed' = processed + 1
    /\ pc' = "transcribe"
    /\ UNCHANGED <<history, cooldown_until, now, widgets, rendered, transcribed, assistant_text, tts, call, exc, accepted, calls>>
    /\ UNCHANGED fixed

\* Line 155 false: the script ends without running the processing block.
SkipProcessing ==
    /\ pc = "guard"
    /\ ~ProcessingGuard
    /\ EndOfRun
    /\ UNCHANGED <<session, now, audio_file, rendered, ghosts>>
    /\ UNCHANGED fixed

\* Line 168 without the test of the transcript.
TranscriptAcceptedAlways(text) == TRUE

\* Line 168: whether the transcript is appended as a user turn.
TranscriptAccepted(text) == Truthy(text)

\* Lines 165-185: the transcription branch.  r is what the request of
\* transcribe_audio_bytes (lines 135-143) produced.
Transcribe ==
    /\ pc = "transcribe"
    /\ IF Truthy(uploaded_audio)
       THEN \E r \in Transcriptions :
              /\ transcribed' = r
              /\ IF r.kind = "ok"
                 THEN /\ history' = IF TranscriptAccepted(r.text)
                                    THEN Append(history, Turn("user", r.text))
                                    ELSE history
                      /\ UNCHANGED awaiting_reply
                 ELSE /\ history' = Append(history, Turn("assistant", "Sorry - transcription failed."))
                      /\ awaiting_reply' = FALSE
       ELSE UNCHANGED <<history, awaiting_reply, transcribed>>
    /\ pc' = "chat"
    /\ UNCHANGED <<cooldown_until, s_uploaded_audio, now, widgets, rendered, uploaded_audio,
                   assistant_text, tts, call, exc, ghosts>>
    /\ UNCHANGED fixed

\* Line 188 without the test of the role.
LastIsAnyTurn == Truthy(history)

\* Line 188: the condition under which the chat endpoint is called.
LastIsUser == Truthy(history) /\ history[Len(history)].role = "user"

\* Lines 188-191 and 102-112: the call of call_openai_with_backoff begins.
BeginChat ==
    /\ pc = "chat"
    /\ LastIsUser
    /\ attempt' = 1
    /\ backoff' = initial_backoff
    /\ sleeps' = <<>>
    /\ responses' = <<>>
    /\ api_key' = OPENAI_KEY
    /\ messages' = Messages(history)
    /\ calls' = calls + 1
    /\ pc' = "post"
    /\ UNCHANGED <<session, now, widgets, rendered, locals, data, exc, accepted, processed>>
    /\ UNCHANGED fixed

\* Lines 205-207: nothing to do.
SkipChat ==
    /\ pc = "chat"
    /\ ~LastIsUser
    /\ pc' = "finally"
    /\ UNCHANGED <<session, now, widgets, rendered, locals, call, exc, ghosts>>
    /\ UNCHANGED fixed

\* Lines 121 and 128 with attempt <= max_retries.
ShouldRetryOffByOne(status) ==
    \/ status = 429 /\ attempt <= max_retries
    \/ status = 0 /\ attempt <= max_retries

\* Lines 121 and 128 with attempt < max_retries - 1.
ShouldRetryGivesUpEarly(status) ==
    \/ status = 429 /\ attempt < max_retries - 1
    \/ status = 0 /\ attempt < max_retries - 1

\* Lines 121 and 128 retrying every failed attempt, whatever its status.
ShouldRetryAnyError(status) == status # 200 /\ attempt < max_retries

\* Lines 121 and 128: whether a failed attempt is retried.  status 0 is a
\* RequestException that is no HTTPError.
ShouldRetry(status) ==
    \/ status = 429 /\ attempt < max_retries
    \/ status = 0 /\ attempt < max_retries

\* Lines 123 and 130 with backoff += 1.
NextBackoffLinear(b) == b + 1

\* Lines 123 and 130.
NextBackoff(b) == b * 2

\* Lines 113-132: one iteration of the loop of call_openai_with_backoff.
\* r is what requests.post and raise_for_status produced.
Post ==
    /\ pc = "post"
    /\ \E r \in Responses :
         /\ responses' = Append(responses, r)
         /\ IF r.status = 200
            THEN /\ data' = r.body
                 /\ pc' = "extract"
                 /\ UNCHANGED <<now, attempt, backoff, sleeps, exc>>
            ELSE IF ShouldRetry(r.status)
            THEN /\ sleeps' = Append(sleeps, backoff)
                 /\ now' = now + backoff
                 /\ backoff' = NextBackoff(backoff)
                 /\ attempt' = attempt + 1
                 /\ UNCHANGED <<pc, data, exc>>
            ELSE /\ exc' = [kind |-> IF r.status = 0 THEN "request" ELSE "http", status |-> r.status]
                 /\ pc' = "except"
                 /\ UNCHANGED <<now, attempt, backoff, sleeps, data>>
    /\ UNCHANGED <<session, widgets, rendered, locals, ghosts, api_key, messages>>
    /\ UNCHANGED fixed

\* Line 192: data.get("choices", [{}])[0] raises IndexError on an empty list.
ExtractRaises(d) == Len(Get(d, "choices", <<EmptyDict>>)) = 0

\* Line 192: data.get("choices", [{}])[0].get("message", {}).get("content", "")
ExtractContent(d) ==
    Get(Get(Get(d, "choices", <<EmptyDict>>)[1], "message", EmptyDict), "content", "")

\* Lines 193-194.
WithFallback(text) == IF Truthy(text) THEN text ELSE "Sorry - I couldn't generate a response."

\* Lines 192-195: the reply is taken from the body and appended.
Extract ==
    /\ pc = "extract"
    /\ IF ExtractRaises(data)
       THEN /\ exc' = [kind |-> "index", status |-> 0]
            /\ pc' = "except"
            /\ UNCHANGED <<history, assistant_text>>
       ELSE /\ assistant_text' = WithFallback(ExtractContent(data))
            /\ history' = Append(history, Turn("assistant", assistant_text'))
            /\ pc' = "tts"
            /\ UNCHANGED exc
    /\ UNCHANGED <<awaiting_reply, cooldown_until, s_uploaded_audio, now, widgets, rendered,
                   uploaded_audio, transcribed, tts, call, ghosts>>
    /\ UNCHANGED fixed

\* Without lines 202-204 the exception reaches the handlers of line 218.
AfterTtsRaiseUncaught == "except"

\* Lines 202-204: an exception of the speech synthesis is caught and logged,
\* and control goes on to the cleanup.
AfterTtsRaise == "finally"

\* Lines 198-204 and 146-152: speech synthesis; o is its outcome.
SynthesizeTts ==
    /\ pc = "tts"
    /\ \E o \in {"ok", "raise"} :
         /\ tts' = o
         /\ IF o = "raise"
            THEN /\ pc' = AfterTtsRaise
                 /\ exc' = IF AfterTtsRaise = "except" THEN [kind |-> "tts", status |-> 0] ELSE exc
            ELSE /\ pc' = "finally"
                 /\ UNCHANGED exc
    /\ UNCHANGED <<session, now, widgets, rendered, uploaded_audio, transcribed, assistant_text, call, ghosts>>
    /\ UNCHANGED fixed

\* Lines 209-221 with one text for every handler.
ErrorTurnAllSame(e) == Turn("assistant", "Sorry - API error. Please try again later.")

\* Lines 209-221: the turn appended for the exception in flight.
ErrorTurn(e) ==
    IF e.kind = "http"
    THEN Turn("assistant", "Sorry - API error. Please try again later.")
    ELSE Turn("assistant", "Sorry - unexpected server error.")

\* Lines 209-221: the handlers of the processing block.
Except ==
    /\ pc = "except"
    /\ history' = Append(history, ErrorTurn(exc))
    /\ exc' = NoExc
    /\ pc' = "finally"
    /\ UNCHANGED <<awaiting_reply, cooldown_until, s_uploaded_audio, now, widgets, rendered,
                   locals, call, ghosts>>
    /\ UNCHANGED fixed

\* Lines 223-226: the cleanup, after which the script ends.
Finally ==
    /\ pc = "finally"
    /\ awaiting_reply' = FALSE
    /\ cooldown_until' = now + COOLDOWN_SECONDS
    /\ EndOfRun
    /\ UNCHANGED <<history, s_uploaded_audio, now, audio_file, rendered, ghosts>>
    /\ UNCHANGED fixed

\* ------------------------------------------------------- specifications
User ==
    \/ \E t \in Texts : SubmitText(t)
    \/ \E b \in AudioBytes : UploadAudio(b)
    \/ RemoveAudio

Script ==
    \/ RunForm
    \/ RunUpload
    \/ EnterProcessing
    \/ SkipProcessing
    \/ Transcribe
    \/ BeginChat
    \/ SkipChat
    \/ Post
    \/ Extract
    \/ SynthesizeTts
    \/ Except
    \/ Finally

Next == User \/ Tick \/ Script

Spec == Init /\ [][Next]_vars

\* ------------------------------------------------------------- start-up
\* What the secrets store and the environment may hold under OPENAI_API_KEY;
\* "" stands for an absent or empty value, both falsy at lines 32 and 35.
SecretsKeys == {"", "sk-secrets"}
EnvKeys == {"", "sk-env"}

\* The state before the first run of the script: there is no session state
\* yet and no widget has been rendered.
InitKeys ==
    /\ secrets_key \in SecretsKeys
    /\ env_key \in EnvKeys
    /\ initialised = FALSE
    /\ pc = "start"
    /\ history = <<>>
    /\ awaiting_reply = FALSE
    /\ cooldown_until = 0
    /\ s_uploaded_audio = <<>>
    /\ now = 0
    /\ submit_text = FALSE
    /\ user_input = ""
    /\ audio_file = <<>>
    /\ form_disabled = FALSE
    /\ uploader_disabled = FALSE
    /\ uploaded_audio = <<>>
    /\ transcribed = NoTranscript
    /\ attempt = 0
    /\ backoff = 0
    /\ sleeps = <<>>
    /\ responses = <<>>
    /\ data = NoBody
    /\ exc = NoExc
    /\ assistant_text = ""
    /\ tts = "none"
    /\ accepted = 0
    /\ processed = 0
    /\ calls = 0
    /\ api_key = ""
    /\ messages = <<>>
    /\ other = IdleRun

\* Lines 27-45 of the first run: without a key st.stop() ends the run before
\* the session state exists; with a key the session state is created and the
\* run goes on to the form.
Startup ==
    /\ pc = "start"
    /\ IF ~Truthy(OPENAI_KEY)
       THEN /\ pc' = "stopped"
            /\ UNCHANGED <<session, initialised>>
       ELSE /\ history' = <<>>
            /\ awaiting_reply' = FALSE
            /\ cooldown_until' = 0
            /\ s_uploaded_audio' = <<>>
            /\ initialised' = TRUE
            /\ pc' = "form"
    /\ UNCHANGED <<now, widgets, rendered, locals, call, exc, ghosts, secrets_key, env_key, other>>

KeyNext == Startup \/ Next

KeySpec == InitKeys /\ [][KeyNext]_vars

\* ------------------------------------------------------ overlapping runs
\* The code holds no lock: awaiting_reply is a flag in the session state
\* (line 157, "Prevent re-entry while processing").  RaceSpec lets a second
\* run of the script start while one is in progress, as two submissions
\* handled at the same time would; the two runs share the session state and
\* each has its own locals.  other holds the locals of the run that is not
\* executing, and Switch passes control between the two.  Of all the
\* interleavings RaceSpec explores those in which the second run is the last
\* submission within the bounds, control passes while a run has not yet
\* executed a line, while it waits for the answer to a request of the call
\* (requests.post blocks, line 115) or when it has ended, and the endpoint
\* answers a call within MaxRaceAttempts attempts.
MaxOverlapTime == 1   \* a second run starts while now < MaxOverlapTime
MaxRaceAttempts == 1  \* requests of one call under RaceSpec

\* A run at a point where control may pass to the other run.
Yields == pc \in {"form", "post", "idle"}

CurrentRun ==
    [pc |-> pc, submit_text |-> submit_text, user_input |-> user_input,
     uploaded_audio |-> uploaded_audio, transcribed |-> transcribed, attempt |-> attempt,
     backoff |-> backoff, sleeps |-> sleeps, responses |-> responses, data |-> data,
     api_key |-> api_key, messages |-> messages, exc |-> exc,
     assistant_text |-> assistant_text, tts |-> tts]

LoadRun(r) ==
    /\ pc' = r.pc
    /\ submit_text' = r.submit_text
    /\ user_input' = r.user_input
    /\ uploaded_audio' = r.uploaded_audio
    /\ transcribed' = r.transcribed
    /\ attempt' = r.attempt
    /\ backoff' = r.backoff
    /\ sleeps' = r.sleeps
    /\ responses' = r.responses
    /\ data' = r.data
    /\ api_key' = r.api_key
    /\ messages' = r.messages
    /\ exc' = r.exc
    /\ assistant_text' = r.assistant_text
    /\ tts' = r.tts

\* The user presses Send (line 60) on the form as last rendered while a run
\* of the script is in progress, and a second run starts beside it.
StartOverlapping(t) ==
    /\ pc # "idle"
    /\ Yields
    /\ other.pc = "idle"
    /\ now < MaxOverlapTime
    /\ accepted + 1 = MaxSubmissions
    /\ Truthy(t)
    /\ ~form_disabled
    /\ other' = CurrentRun
    /\ LoadRun([IdleRun EXCEPT !.pc = "form", !.submit_text = TRUE, !.user_input = t])
    /\ UNCHANGED <<session, now, audio_file, rendered, ghosts, secrets_key, env_key, initialised>>

\* Control passes from the executing run to the other one.
Switch ==
    /\ other.pc # "idle"
    /\ Yields
    /\ other' = CurrentRun
    /\ LoadRun(other)
    /\ UNCHANGED <<session, now, audio_file, rendered, ghosts, secrets_key, env_key, initialised>>

\* Post, for the calls RaceSpec explores.
RacePost == Post /\ Len(responses') <= MaxRaceAttempts

RaceScript ==
    \/ RunForm
    \/ RunUpload
    \/ EnterProcessing
    \/ SkipProcessing
    \/ Transcribe
    \/ BeginChat
    \/ SkipChat
    \/ RacePost
    \/ Extract
    \/ SynthesizeTts
    \/ Except
    \/ Finally

RaceNext ==
    \/ User
    \/ Tick
    \/ RaceScript
    \/ Switch
    \/ \E t \in Texts : StartOverlapping(t)

RaceSpec == Init /\ [][RaceNext]_vars

\* A started script run is carried on to its end; the user and the clock
\* are under no obligation.
FairSpec == Spec /\ WF_vars(Script)

\* ---------------------------------------------------------------- claims
Statuses(rs) == [i \in 1..Len(rs) |-> rs[i].status]

All429(rs) == \A i \in 1..Len(rs) : rs[i].status = 429

\* The call of call_openai_with_backoff has ended by raising.
GaveUp == pc = "except" /\ exc.kind \in {"http", "request"}

\* C1 (as stated): with the defaults, when every attempt gets HTTP 429 the
\* call gives up after 5 attempts having slept exactly 1, 2, 4, 8, 16 seconds.
C1_SleepsIncludeSixteen ==
    (GaveUp /\ All429(responses)) => (Len(responses) = 5 /\ sleeps = <<1, 2, 4, 8, 16>>)

\* C1 (amended): with the defaults, when every attempt gets HTTP 429 the
\* sleeps are exactly 1, 2, 4, 8 seconds in that order, one between each two
\* attempts; the call gives up on the 5th attempt, whose 429 is raised without
\* a further sleep, and a 6th request is never sent.
C1_BackoffSchedule ==
    /\ Len(responses) <= 5
    /\ All429(responses) =>
         /\ Len(sleeps) = IF Len(responses) < 5 THEN Len(responses) ELSE 4
         /\ sleeps = SubSeq(<<1, 2, 4, 8>>, 1, Len(sleeps))
    /\ (GaveUp /\ All429(responses)) =>
         /\ Len(responses) = 5
         /\ sleeps = <<1, 2, 4, 8>>
         /\ exc = [kind |-> "http", status |-> 429]

C1_Witness ==
    /\ GaveUp
    /\ Statuses(responses) = <<429, 429, 429, 429, 429>>
    /\ sleeps = <<1, 2, 4, 8>>

\* C2: whenever awaiting_reply is true it is eventually set back to false.
C2_AwaitingEventuallyCleared == awaiting_reply ~> ~awaiting_reply

AdjacentAssistants(h) ==
    \E i \in 1..(Len(h) - 1) : h[i].role = "assistant" /\ h[i + 1].role = "assistant"

\* C3 (as stated): no two assistant turns of the history are adjacent.
C3_NoAdjacentAssistants == ~AdjacentAssistants(history)

\* C3 (amended): an assistant turn is appended directly after another
\* assistant turn only by the transcription branch (its failure placeholder);
\* a reply or a chat error placeholder always directly follows a user turn.
C3_OnlyTranscriptionFailureRepeats ==
    [][(/\ Len(history') = Len(history) + 1
        /\ history'[Len(history')].role = "assistant"
        /\ Truthy(history)
        /\ history[Len(history)].role = "assistant")
       => (pc = "transcribe" /\ transcribed'.kind \in {"http", "other"})]_vars

C3_Witness ==
    /\ pc = "chat"
    /\ transcribed.kind = "http"
    /\ Len(history) = 3
    /\ history[2].role = "assistant"
    /\ history[3] = Turn("assistant", "Sorry - transcription failed.")

\* C4: when the script has ended, the number of turns is the number of
\* accepted submissions plus the number of processed passes, and an accepted
\* submission has left at least one turn.
C4_TurnCount ==
    pc = "idle" => /\ Len(history) = accepted + processed
                   /\ accepted > 0 => Len(history) > 0

\* C5: from the moment the text submit action has appended the user turn
\* until the script run has ended, is_disabled() is true.
C5_LockedAfterTextSubmit ==
    (TextAccepted /\ pc \notin {"idle", "form"}) => is_disabled

C5_Witness ==
    /\ pc = "upload"
    /\ TextAccepted
    /\ history[Len(history)] = Turn("user", user_input)
    /\ awaiting_reply
    /\ now < cooldown_until

\* C6: k < max_retries consecutive 429 responses followed by a 200 make the
\* call return the body of that 200 after exactly k sleeps; the call does not
\* give up on a 429 before the attempt max_retries.
C6_RetryThenSuccess ==
    /\ (pc = "extract" /\ All429(SubSeq(responses, 1, Len(responses) - 1))) =>
         /\ responses[Len(responses)].status = 200
         /\ data = responses[Len(responses)].body
         /\ Len(sleeps) = Len(responses) - 1
         /\ Len(responses) - 1 < max_retries
    /\ (GaveUp /\ All429(responses)) => Len(responses) >= max_retries

C6_Witness ==
    /\ pc = "extract"
    /\ Statuses(responses) = <<429, 429, 200>>
    /\ data = BodyFull
    /\ sleeps = <<1, 2>>

\* str.strip() == "": the text is empty or holds only spaces.
IsBlank(t) == \A i \in 1..Len(t) : SubSeq(t, i, i) = " "

\* C7: a text submission that is empty or whitespace-only changes neither
\* the history nor awaiting_reply nor cooldown_until.
C7_BlankTextRejected ==
    [][(pc = "form" /\ submit_text /\ IsBlank(user_input))
       => UNCHANGED <<history, awaiting_reply, cooldown_until>>]_vars

\* C8: every turn of the history has non-empty content (so an empty
\* transcript is never appended as a user turn).
C8_NoEmptyTurn == \A i \in 1..Len(history) : history[i].content # ""

C8_Witness ==
    /\ pc = "chat"
    /\ Truthy(uploaded_audio)
    /\ transcribed = [kind |-> "ok", text |-> ""]
    /\ Truthy(history)
    /\ history[Len(history)].role = "assistant"

\* The 200 bodies that lack the text of the first completion.
BodiesWithoutText == {BodyNoChoices, BodyEmptyChoices, BodyNoMessage, BodyNoContent, BodyEmptyContent}

\* C9: a 200 body without the first completion's text makes the reply step
\* append the fallback string as the assistant turn, and raise nothing.
C9_FallbackOnMissingText ==
    [][(pc = "extract" /\ data \in BodiesWithoutText)
       => /\ history' = Append(history, Turn("assistant", "Sorry - I couldn't generate a response."))
          /\ pc' = "tts"
          /\ exc' = NoExc]_vars

\* C10: when the speech synthesis raises after a successful completion, the
\* reply is the last turn and directly follows the user turn, no turn is
\* appended for the failure, and the next step is the cleanup, which clears
\* awaiting_reply and ends the run.
C10_TtsFailureKeepsReply ==
    [][/\ (pc = "tts" /\ tts' = "raise") =>
            /\ pc' = "finally"
            /\ exc' = NoExc
            /\ history' = history
            /\ history[Len(history)] = Turn("assistant", assistant_text)
            /\ history[Len(history) - 1].role = "user"
       /\ tts = "raise" =>
            /\ pc = "finally"
            /\ pc' = "idle"
            /\ history' = history
            /\ awaiting_reply' = FALSE]_vars

C10_Witness ==
    /\ tts = "raise"
    /\ pc = "finally"
    /\ history[Len(history)] = Turn("assistant", "ok")


\* A run of the script is inside call_openai_with_backoff (lines 113-132).
InCall(p) == p = "post"

\* C11: at most one call to the chat endpoint is in flight for the session,
\* also when two runs of the script overlap.
C11_AtMostOneCallInFlight == ~(InCall(pc) /\ InCall(other.pc))


\* C12: an HTTP error status other than 429 ends the call on the attempt
\* where it occurs, without a sleep or a further request, also after
\* retried 429s; it and a 429 on the last allowed attempt are raised as a
\* failure that carries the status code.
C12_HttpErrorEndsCall ==
    [][(pc = "post" /\ Len(responses') = Len(responses) + 1) =>
         LET r == responses'[Len(responses')] IN
           /\ r.status \notin {200, 429, 0} =>
                /\ pc' = "except"
                /\ exc' = [kind |-> "http", status |-> r.status]
                /\ sleeps' = sleeps /\ now' = now /\ attempt' = attempt
           /\ (r.status = 429 /\ attempt = max_retries) =>
                /\ pc' = "except"
                /\ exc' = [kind |-> "http", status |-> 429]
                /\ sleeps' = sleeps /\ now' = now]_vars

C12_Witness ==
    /\ pc = "except"
    /\ Statuses(responses) = <<429, 429, 500>>
    /\ exc = [kind |-> "http", status |-> 500]
    /\ sleeps = <<1, 2>>

AllRetryable(rs) == \A i \in 1..Len(rs) : rs[i].status \in {429, 0}

\* C13: whatever mix of 429 responses and network failures answers the
\* call, it makes at most max_retries requests and then ends with a
\* failure, sleeping after each failed attempt but the last, and the n-th
\* sleep lasts initial_backoff * 2^(n-1).
C13_NetworkFailuresRetried ==
    /\ Len(responses) <= max_retries
    /\ \A n \in 1..Len(sleeps) : sleeps[n] = initial_backoff * 2^(n - 1)
    /\ AllRetryable(responses) =>
         /\ Len(sleeps) = IF Len(responses) < max_retries THEN Len(responses) ELSE max_retries - 1
         /\ Len(responses) = max_retries => pc \in {"except", "finally"}
    /\ (GaveUp /\ AllRetryable(responses)) =>
         /\ Len(responses) = max_retries
         /\ exc.status = responses[Len(responses)].status
         /\ exc.kind = IF exc.status = 0 THEN "request" ELSE "http"

C13_Witness ==
    /\ GaveUp
    /\ Statuses(responses) = <<0, 429, 0, 429, 0>>
    /\ sleeps = <<1, 2, 4, 8>>
    /\ exc.kind = "request"


\* C14: when audio is queued, the pass transcribes it before any chat call;
\* a transcript with text is appended as a user turn and the chat call
\* follows; a failed transcription appends exactly one assistant error turn
\* and the pass makes no chat call.
C14_QueuedAudioTranscribedFirst ==
    [][/\ (pc = "guard" /\ pc' = "transcribe" /\ s_uploaded_audio # <<>>) =>
            Truthy(uploaded_audio')
       /\ (pc = "chat" /\ pc' = "post" /\ Truthy(uploaded_audio)) =>
            transcribed.kind = "ok"
       /\ (pc = "transcribe" /\ transcribed'.kind = "ok" /\ Truthy(transcribed'.text)) =>
            /\ history' = Append(history, Turn("user", transcribed'.text))
            /\ pc' = "chat" /\ LastIsUser'
       /\ (pc = "transcribe" /\ transcribed'.kind \in {"http", "other"}) =>
            /\ Len(history') = Len(history) + 1
            /\ history'[Len(history')].role = "assistant"
            /\ pc' = "chat" /\ ~LastIsUser']_vars

UserTurns(h) == Cardinality({i \in 1..Len(h) : h[i].role = "user"})

\* C15: whenever the page waits for the user, call_openai_with_backoff has
\* been invoked exactly once for each user turn of the history.
C15_OneCallPerUserTurn == pc = "idle" => calls = UserTurns(history)

\* Lines 209-221: the three ways in which the handlers report a failure of
\* the chat call on the page.
ErrorClass(e) ==
    IF e.kind = "http"
    THEN IF e.status = 429 THEN "rate-limited" ELSE "generic"
    ELSE "unexpected"

Failures ==
    [kind : {"http"}, status : {429, 500}] \cup [kind : {"request", "index"}, status : {0}]

\* C16 as stated: the handlers append exactly one assistant turn, and the
\* turns of two failures of different classes (rate-limited, generic,
\* unexpected) have different texts.
C16_TurnTextPerFailureClass ==
    [][(pc = "except" /\ pc' = "finally") =>
         /\ history' = Append(history, history'[Len(history')])
         /\ history'[Len(history')].role = "assistant"
         /\ \A e \in Failures :
              ErrorClass(e) # ErrorClass(exc) =>
                ErrorTurn(e).content # history'[Len(history')].content]_vars

\* C16 amended: the handlers append exactly one assistant turn; every HTTP
\* failure, status 429 included, yields the text "Sorry - API error. Please
\* try again later." and every other failure yields "Sorry - unexpected
\* server error."
C16_TurnTextPerHandler ==
    [][(pc = "except" /\ pc' = "finally") =>
         /\ history' = Append(history, history'[Len(history')])
         /\ history'[Len(history')].role = "assistant"
         /\ history'[Len(history')].content =
              IF exc.kind = "http"
              THEN "Sorry - API error. Please try again later."
              ELSE "Sorry - unexpected server error."]_vars

C16_Witness ==
    /\ pc = "finally"
    /\ Len(responses) = max_retries
    /\ All429(responses)
    /\ history[Len(history)] = Turn("assistant", "Sorry - API error. Please try again later.")


\* C17: without a key in the secrets store and in the environment the run
\* halts before the session state is initialised: no turn, no flag, no
\* request to the chat, transcription or speech service; a run halts only
\* for want of a key, and a call uses the key of the secrets store when
\* there is one and the environment variable otherwise.
C17_NoKeyHalts ==
    /\ (~Truthy(secrets_key) /\ ~Truthy(env_key)) =>
         /\ pc \in {"start", "stopped"}
         /\ ~initialised
         /\ history = <<>> /\ ~awaiting_reply /\ cooldown_until = 0 /\ s_uploaded_audio = <<>>
         /\ calls = 0 /\ responses = <<>> /\ transcribed = NoTranscript /\ tts = "none"
    /\ pc = "stopped" => (~Truthy(secrets_key) /\ ~Truthy(env_key))
    /\ pc \notin {"start", "stopped"} => initialised
    /\ pc = "post" =>
         /\ Truthy(secrets_key) => api_key = secrets_key
         /\ ~Truthy(secrets_key) => api_key = env_key

C17_Witness ==
    /\ pc = "stopped"
    /\ secrets_key = "" /\ env_key = ""
    /\ ~initialised /\ history = <<>> /\ calls = 0


\* C18: every pass through the processing block ends with awaiting_reply
\* false and cooldown_until = now + COOLDOWN_SECONDS, and a submission that
\* follows a pass is accepted only once that cooldown has elapsed.  (While
\* awaiting_reply is false after a pass, cooldown_until is the value the
\* cleanup of the last pass gave it.)
C18_CooldownAfterEveryPass ==
    [][/\ (pc = "finally" /\ pc' = "idle") =>
            /\ ~awaiting_reply'
            /\ cooldown_until' = now + COOLDOWN_SECONDS
       /\ (accepted' > accepted /\ processed > 0 /\ ~awaiting_reply) =>
            now >= cooldown_until]_vars


AdjacentUsers(h) ==
    \E i \in 1..(Len(h) - 1) : h[i].role = "user" /\ h[i + 1].role = "user"

\* C20: whenever the page waits for the user, the history is empty or ends
\* with an assistant turn, every user turn is immediately followed by an
\* assistant turn and no two user turns are adjacent.
C20_EveryUserTurnAnswered ==
    pc = "idle" =>
      /\ history = <<>> \/ history[Len(history)].role = "assistant"
      /\ \A i \in 1..Len(history) :
           history[i].role = "user" => (i < Len(history) /\ history[i + 1].role = "assistant")
      /\ ~AdjacentUsers(history)

====
